---------------------------- MODULE Spec2Model ----------------------------
(***************************************************************************)
(* Model of decoder/decoder.go: the Decoder adapter around the native      *)
(* codec engine (parser + video decoder) and the colour converter.         *)
(*                                                                         *)
(* The native engine is an external collaborator.  Under Spec its answers  *)
(* (consumed count, pending packet size, decode result, geometry, ...) are *)
(* drawn nondeterministically in every loop iteration; under SpecStream    *)
(* they are computed by a deterministic streaming parser (StreamParse /    *)
(* StreamDecode) so that runs over the same bitstream can be compared.     *)
(***************************************************************************)
EXTENDS Integers, Sequences, FiniteSets, TLC

VARIABLES
    dec,        \* "none" | "failed" | "open" | "closed": what New returned / Close did
    newErr,     \* error value returned by New ("nil" when it succeeded)
    args,       \* the arguments New was called with: [pxlFmt, cpr]
    res,        \* native resources acquired for the Decoder:
                \* name -> "none" | "live" | "freed" | "freed again"
    swsLive,    \* number of scaling contexts created by Convert and not freed
    convCtx,    \* converter.context: Nil or the parameters of the cached scaling context
    framergb,   \* converter.framergb: [w, h, linesize, data]
    context,    \* codec context geometry as the engine last reported it: [Width, Height]
    pc,         \* "idle" | "loop" (inside Decode's for loop) | "panic" (process crashed)
                \* | "corrupt" (the process runs on after undefined behaviour)
    data,       \* the not yet consumed rest of the chunk of the running Decode call
    frames,     \* Decode's local variable frames
    retFrames,  \* frames returned by the last finished Decode call
    retErr,     \* error returned by the last finished Decode call
    heap,       \* memory: address -> bytes (address 0 is the scratch conversion buffer)
    nConv,      \* number of Convert calls made so far
    returned,   \* history: all frames returned by Decode so far, in order
    completed,  \* history: buffers of the pictures decoded and converted so far, in order
    origin,     \* history: address -> [w, h, bytes, sws]: what the engine reported, what
                \* Convert wrote and the scaling context it scaled with
    call,       \* history of the running (or last) Decode call
    scratchLive,\* number of conversion scratch buffers allocated and not released
    usedFreed,  \* history: a native call was made on a handle Close had released
    stream,     \* SpecStream: the complete bitstream
    fed,        \* SpecStream: number of bytes of stream passed to Decode so far
    pbuf        \* SpecStream: the parser's internal buffer of undigested bytes

vars == <<dec, newErr, args, res, swsLive, convCtx, framergb, context, pc, data,
          frames, retFrames, retErr, heap, nConv, returned, completed, origin,
          call, scratchLive, usedFreed, stream, fed, pbuf>>

-----------------------------------------------------------------------------
(* Bounds of the model *)

\* longest chunk handed to one Decode call under Spec
MaxChunk == 2
\* Convert calls (pictures) over the lifetime of one Decoder under Spec
MaxConv == 2
\* length of the complete bitstream under SpecStream
MaxStream == 4

-----------------------------------------------------------------------------
(* Program constants *)

PixelFormatRGB == 2
PixelFormatBGR == 3
\* pixel formats New is called with: RGB24, BGR24 and one that is neither
PixelFormatArgs == {PixelFormatRGB, PixelFormatBGR, PixelFormatRGB - 2}
BytesPerPixel == 3

H264 == "H264"
H265 == "H265"
\* compression values New is called with: H264, H265 and one that is neither
CompressionArgs == {H264, H265, "OTHER"}

Nil == "nil"
Resources == {"context", "parser", "frame", "pkt", "framergb"}
ScratchAddr == 0
\* a nil scaling context; a context is the <<w, h>> it was built for
NoCtx == <<>>
\* converter.framergb as AvFrameAlloc returns it; data is <<>> or <<address>>
EmptyFrame == [w |-> 0, h |-> 0, linesize |-> 0, data |-> <<>>]
Freed == << -1 >>

\* picture geometries the engine may report (width, height)
Geoms == {<<1, 2>>, <<2, 1>>}

-----------------------------------------------------------------------------
(* New: lines 48-105.  failAt names the native call that fails, "none" if   *)
(* every native call succeeds.  The result is the error, the set of native  *)
(* resources acquired and still allocated when New returns, and whether a   *)
(* Decoder is returned.                                                    *)

FailPoints == {"none", "find", "alloc", "open", "parser", "frame", "pkt", "converter"}

newConverter(failAt) ==
    IF failAt = "converter"
    THEN [err |-> "cannot allocate frame", acquired |-> {}]
    ELSE [err |-> Nil, acquired |-> {"framergb"}]

New(pxlFmt, cpr, failAt) ==
    IF failAt = "find"
    THEN [err |-> "cannot find decoder", acquired |-> {}, decoder |-> FALSE]
    ELSE IF failAt = "alloc"
    THEN [err |-> "cannot allocate context", acquired |-> {}, decoder |-> FALSE]
    ELSE IF failAt = "open"
    THEN [err |-> "cannot open content", acquired |-> {"context"}, decoder |-> FALSE]
    ELSE IF failAt = "parser"
    THEN [err |-> "cannot init parser", acquired |-> {"context"}, decoder |-> FALSE]
    ELSE IF failAt = "frame"
    THEN [err |-> "cannot allocate frame", acquired |-> {"context", "parser"},
          decoder |-> FALSE]
    ELSE IF failAt = "pkt"
    THEN [err |-> "cannot allocate packet",
          acquired |-> {"context", "parser", "frame"}, decoder |-> FALSE]
    ELSE IF cpr /= H264 /\ cpr /= H265
    THEN [err |-> "unsupported compression",
          acquired |-> {"context", "parser", "frame", "pkt"}, decoder |-> FALSE]
    ELSE IF pxlFmt /= PixelFormatRGB /\ pxlFmt /= PixelFormatBGR
    THEN [err |-> "unsupported pixel format",
          acquired |-> {"context", "parser", "frame", "pkt"}, decoder |-> FALSE]
    ELSE LET c == newConverter(failAt) IN
         IF c.err /= Nil
         THEN [err |-> c.err,
               acquired |-> {"context", "parser", "frame", "pkt"}, decoder |-> FALSE]
         ELSE [err |-> Nil,
               acquired |-> {"context", "parser", "frame", "pkt"} \cup c.acquired,
               decoder |-> TRUE]

-----------------------------------------------------------------------------
(* The engine's answers in one iteration of Decode's loop.                  *)
(*   nread    what AvParserParse2 returned (bytes consumed)                 *)
(*   pktSize  h.pkt.Size() after the parse                                  *)
(*   decRet   what AvcodecDecodeVideo2 returned                             *)
(*   got      gotPicture                                                    *)
(*   w, h     context.Width(), context.Height() after the decode step       *)
(*   pic      the decoded picture's content                                 *)
(*   swsOk    SwsGetcontext / SwsGetcachedcontext returned a context        *)
(*   setOk    AvSetFrame returned no error                                  *)

Answer(nread, pktSize, decRet, got, g, pic, swsOk, setOk) ==
    [nread |-> nread, pktSize |-> pktSize, decRet |-> decRet, got |-> got,
     w |-> g[1], h |-> g[2], pic |-> pic, swsOk |-> swsOk, setOk |-> setOk]

\* bytes the scaler writes for picture content pic: packed 3-byte pixels whose
\* channel order depends on the target pixel format
Pixels(pic, pixFmt, w, h) ==
    [i \in 1..(w * BytesPerPixel * h) |->
        IF pixFmt = PixelFormatRGB
        THEN 10 * pic + ((i - 1) % BytesPerPixel)
        ELSE 10 * pic + (BytesPerPixel - 1 - ((i - 1) % BytesPerPixel))]

\* mutant: an empty pending packet counts as a unit
isFrameAvailableAlways(pktSize) == pktSize >= 0

\* h.parse + h.isFrameAvailable: lines 152-164
isFrameAvailable(pktSize) == pktSize > 0

\* h.decodeFrame: lines 166-174 (the error it returns)
decodeFrame(decRet, gotPicture) ==
    IF decRet < 0 \/ gotPicture = 0 THEN "error decoding frame" ELSE Nil

\* converter.PredictSize: lines 300-303 (AvpictureFill with a nil buffer: the packed
\* size of a w x h picture of 3-byte pixels, rows unpadded)
PredictSize(w, h) == w * BytesPerPixel * h

\* the scaling context Convert works with, lines 247-276: a fresh one when the
\* converter holds none, else SwsGetcachedcontext's (the held one when its
\* parameters match, a fresh one replacing it otherwise); Nil when none is obtained
SwsFor(cctx, w, h, swsOk) ==
    IF cctx = NoCtx
    THEN [ctx |-> IF swsOk THEN <<w, h>> ELSE NoCtx,
          made |-> IF swsOk THEN 1 ELSE 0, freed |-> 0]
    ELSE IF cctx = <<w, h>>
    THEN [ctx |-> cctx, made |-> 0, freed |-> 0]
    ELSE [ctx |-> IF swsOk THEN <<w, h>> ELSE NoCtx,
          made |-> IF swsOk THEN 1 ELSE 0, freed |-> 1]

\* what converter.context holds after Convert: Convert works on the local
\* swsCtx and never assigns c.context (lines 247-276)
ContextAfterConvert(cctx, swsCtx) == cctx

\* mutant: the geometry of the first conversion is kept for the later ones
ConvertCachedGeometry(cctx, rgb0, pixFmt, a) ==
    LET w == IF rgb0.w > 0 THEN rgb0.w ELSE a.w
        h == IF rgb0.h > 0 THEN rgb0.h ELSE a.h
        s == SwsFor(cctx, w, h, a.swsOk)
    IN
    IF ~a.setOk
    THEN [err |-> "cannot set frame", crash |-> FALSE, sws |-> s,
          rgb |-> [rgb0 EXCEPT !.w = w, !.h = h], bytes |-> <<>>]
    ELSE [err |-> Nil, crash |-> (s.ctx = NoCtx), sws |-> s,
          rgb |-> [w |-> w, h |-> h, linesize |-> w * BytesPerPixel,
                   data |-> <<ScratchAddr>>],
          bytes |-> Pixels(a.pic, pixFmt, w, h)]

\* converter.Convert: lines 244-298.  rgb is c.framergb after the call, whose data
\* pointer is the out_rgb buffer; bytes is what that buffer then holds.
Convert(cctx, rgb0, pixFmt, a) ==
    LET s == SwsFor(cctx, a.w, a.h, a.swsOk) IN
    IF ~a.setOk
    THEN [err |-> "cannot set frame", crash |-> FALSE, sws |-> s,
          rgb |-> [rgb0 EXCEPT !.w = a.w, !.h = a.h], bytes |-> <<>>]
    ELSE [err |-> Nil,
          \* SwsScale2 on a nil scaling context dereferences it
          crash |-> (s.ctx = NoCtx),
          sws |-> s,
          rgb |-> [w |-> a.w, h |-> a.h, linesize |-> a.w * BytesPerPixel,
                   data |-> <<ScratchAddr>>],
          bytes |-> Pixels(a.pic, pixFmt, a.w, a.h)]

\* mutant: the slice is a view of the C buffer instead of a copy
frameDataAlias(rgb, buf, fresh) ==
    [addr |-> rgb.data[1], bytes |-> SubSeq(buf, 1, rgb.linesize * rgb.h)]

\* mutant: the size is taken from the width instead of the height
frameDataByWidth(rgb, buf, fresh) ==
    [addr |-> fresh, bytes |-> SubSeq(buf, 1, rgb.linesize * rgb.w)]

\* frameData: lines 213-218.  C.GoBytes copies size bytes from data[0] (the
\* buffer contents buf) into a fresh Go slice at address fresh.
frameData(rgb, buf, fresh) ==
    [addr |-> fresh, bytes |-> SubSeq(buf, 1, rgb.linesize * rgb.h)]

\* newFrame: lines 202-211.  Data is the address of the slice frameData returned.
newFrame(rgb, buf, fresh) ==
    [Data |-> frameData(rgb, buf, fresh).addr,
     Width |-> rgb.w, Height |-> rgb.h, Stride |-> rgb.linesize]

\* mutant: the buffer is released at the end of the function, not deferred
ScratchFreedAtEnd(convErr) == IF convErr /= Nil THEN 0 ELSE 1

\* line 192: the deferred AvFree releases the buffer on every return path
ScratchFreed(convErr) == 1

\* h.decodeFrameImpl: lines 176-200.  frame is <<>> for a nil frame; copy is the
\* Go slice frameData filled; conv is Convert's result when Convert was called;
\* alloc and freed count the scratch buffers allocated (line 191) and released
\* (line 192) by this call.
decodeFrameImpl(cctx, rgb0, pixFmt, a, fresh) ==
    LET none == [frame |-> <<>>, nread |-> a.nread, avail |-> TRUE, err |-> Nil,
                 crash |-> FALSE, copy |-> <<>>, conv |-> <<>>,
                 alloc |-> 0, freed |-> 0]
    IN
    IF ~isFrameAvailable(a.pktSize)
    THEN [none EXCEPT !.avail = FALSE]
    ELSE IF decodeFrame(a.decRet, a.got) /= Nil
    THEN [none EXCEPT !.err = decodeFrame(a.decRet, a.got)]
    ELSE LET c == Convert(cctx, rgb0, pixFmt, a)
             buffer == SubSeq(c.bytes, 1, PredictSize(a.w, a.h))
         IN
         IF c.err /= Nil
         THEN [none EXCEPT !.err = c.err, !.conv = <<c>>,
                           !.alloc = 1, !.freed = ScratchFreed(c.err)]
         ELSE IF c.crash
         THEN [none EXCEPT !.crash = TRUE, !.conv = <<c>>, !.alloc = 1]
         ELSE [none EXCEPT !.frame = <<newFrame(c.rgb, buffer, fresh)>>,
                           !.copy = <<frameData(c.rgb, buffer, fresh)>>,
                           !.conv = <<c>>,
                           !.alloc = 1, !.freed = ScratchFreed(c.err)]

-----------------------------------------------------------------------------
(* Decode's loop body: lines 112-124 *)

\* mutant: the loop aborts on every error decodeFrame returns
AbortsOnAnyError(err, nread) == err /= Nil

\* line 115: the only condition under which Decode returns the error
Aborts(err, nread) == err /= Nil /\ nread < 0

\* line 119: whether the iteration's frame is appended
Appends(avail, frame) == avail /\ frame /= <<>>

\* line 123: data[nread:] is defined for 0 <= nread <= len(data), else it panics
SliceOk(d, nread) == 0 <= nread /\ nread <= Len(d)

\* mutant: the cursor skips one byte more than the parser consumed
AdvanceOneMore(d, nread) == SubSeq(d, nread + 2, Len(d))

\* mutant: the loop takes the chunk as consumed whole after one parse
AdvanceAll(d, nread) == SubSeq(d, Len(d) + 1, Len(d))

Advance(d, nread) == SubSeq(d, nread + 1, Len(d))

\* one iteration, given decodeFrameImpl's results r: what Decode does next
\*   "abort"  return nil, err          (line 116)
\*   "panic"  the slice expression panics, or the native scaler crashed
\*   "next"   another iteration        (len(data) > 0)
\*   "done"   return frames, nil       (line 126)
DecodeStep(fs, d, r) ==
    IF r.crash
    THEN [kind |-> "panic", frames |-> fs, data |-> d, err |-> Nil]
    ELSE IF Aborts(r.err, r.nread)
    THEN [kind |-> "abort", frames |-> <<>>, data |-> d, err |-> r.err]
    ELSE LET fs2 == IF Appends(r.avail, r.frame) THEN fs \o r.frame ELSE fs IN
         IF ~SliceOk(d, r.nread)
         THEN [kind |-> "panic", frames |-> fs2, data |-> d, err |-> Nil]
         ELSE LET d2 == Advance(d, r.nread) IN
              [kind |-> IF Len(d2) > 0 THEN "next" ELSE "done",
               frames |-> fs2, data |-> d2, err |-> Nil]

-----------------------------------------------------------------------------
(* Decoder.Close and converter.Close: lines 131-139, 239-242 *)

\* converter.Close: SwsFreecontext(c.context) frees the context the converter
\* holds, if it holds one; AvFrameFree(c.framergb)
converterClose(cctx, live) == live - (IF cctx = NoCtx THEN 0 ELSE 1)

\* Close has no guard: it hands every handle to its release function, those
\* an earlier Close released included
Close(r) == [x \in Resources |-> IF r[x] = "live" THEN "freed" ELSE "freed again"]

-----------------------------------------------------------------------------
(* State machine *)

NoCall == [ran |-> FALSE, unit |-> FALSE, decFailed |-> FALSE, neg |-> FALSE,
           before |-> <<>>, len |-> 0, last |-> "none", nread |-> 0,
           alloc |-> 0, consumed |-> 0]

\* what the engine answered in an iteration, by kind
\*   "stall"    no pending unit and zero bytes consumed
\*   "nounit"   no pending unit
\*   "hard"     the decode step returned a negative result
\*   "nopic"    the decode step succeeded and produced no picture
\*   "nosws"    a picture, and no scaling context could be obtained for it
\*   "setfail"  a picture, and AvSetFrame failed
\*   "pic"      a picture, converted
Kind(a) ==
    IF a.pktSize <= 0 THEN (IF a.nread = 0 THEN "stall" ELSE "nounit")
    ELSE IF a.decRet < 0 THEN "hard"
    ELSE IF a.got = 0 THEN "nopic"
    ELSE IF ~a.setOk THEN "setfail"
    ELSE IF ~a.swsOk THEN "nosws"
    ELSE "pic"

InitBase ==
    /\ dec = "none"
    /\ newErr = Nil
    /\ args = [pxlFmt |-> PixelFormatRGB, cpr |-> H264, failAt |-> "none"]
    /\ res = [x \in Resources |-> "none"]
    /\ swsLive = 0
    /\ convCtx = NoCtx
    /\ framergb = EmptyFrame
    /\ context = [Width |-> 0, Height |-> 0]
    /\ pc = "idle"
    /\ data = <<>>
    /\ frames = <<>>
    /\ retFrames = <<>>
    /\ retErr = Nil
    /\ heap = [x \in {ScratchAddr} |-> Freed]
    /\ nConv = 0
    /\ returned = <<>>
    /\ completed = <<>>
    /\ origin = [x \in {} |-> <<>>]
    /\ call = NoCall
    /\ scratchLive = 0
    /\ usedFreed = FALSE
    /\ fed = 0
    /\ pbuf = <<>>

Init == InitBase /\ stream = <<>>

\* New(pxlFmt, cpr), with the native call that fails (if any) chosen by the engine
CallNew ==
    /\ dec = "none"
    /\ \E p \in PixelFormatArgs, c \in CompressionArgs, f \in FailPoints :
          LET r == New(p, c, f) IN
          /\ dec' = IF r.decoder THEN "open" ELSE "failed"
          /\ newErr' = r.err
          /\ args' = [pxlFmt |-> p, cpr |-> c, failAt |-> f]
          /\ res' = [x \in Resources |-> IF x \in r.acquired THEN "live" ELSE "none"]
    /\ UNCHANGED <<swsLive, convCtx, framergb, context, pc, data, frames, retFrames,
                   retErr, heap, nConv, returned, completed, origin, call,
                   scratchLive, usedFreed, stream, fed, pbuf>>

\* Decode(chunk) up to its first loop test: lines 109-112 (and 126 for an empty chunk)
BeginDecode(chunk) ==
    /\ frames' = <<>>
    /\ call' = [NoCall EXCEPT !.len = Len(chunk)]
    \* the results of the previous call are gone; this call has returned nothing yet
    /\ retFrames' = <<>>
    /\ retErr' = Nil
    /\ IF Len(chunk) > 0
       THEN /\ pc' = "loop"
            /\ data' = chunk
       ELSE /\ pc' = "idle"
            /\ data' = <<>>
    /\ UNCHANGED <<dec, newErr, args, res, swsLive, convCtx, framergb, context, heap,
                   nConv, returned, completed, origin, scratchLive, usedFreed,
                   stream, pbuf>>

\* one iteration of Decode's loop (lines 112-124) with the engine answering a,
\* through the return when the loop ends (line 126) or aborts (line 116)
Iterate(a) ==
    LET fresh == Len(completed) + 1
        r == decodeFrameImpl(convCtx, framergb, args.pxlFmt, a, fresh)
        s == DecodeStep(frames, data, r)
        converted == r.frame /= <<>>
        heap1 == IF converted
                 THEN [x \in DOMAIN heap \cup {r.copy[1].addr} |->
                          IF x = r.copy[1].addr THEN r.copy[1].bytes ELSE heap[x]]
                 ELSE heap
    IN
    /\ pc' = CASE s.kind = "next" -> "loop"
               [] s.kind = "panic" -> "panic"
               [] OTHER -> "idle"
    /\ data' = IF s.kind \in {"next", "panic"} THEN s.data ELSE <<>>
    /\ frames' = IF s.kind \in {"next", "panic"} THEN s.frames ELSE <<>>
    /\ retFrames' = IF s.kind \in {"abort", "done"} THEN s.frames ELSE retFrames
    /\ retErr' = IF s.kind \in {"abort", "done"} THEN s.err ELSE retErr
    /\ returned' = IF s.kind = "done" THEN returned \o s.frames ELSE returned
    \* the deferred AvFree releases the scratch buffer after the copy was taken
    /\ heap' = IF r.conv /= <<>> THEN [heap1 EXCEPT ![ScratchAddr] = Freed] ELSE heap1
    /\ nConv' = nConv + Len(r.conv)
    /\ swsLive' = IF r.conv /= <<>>
                  THEN swsLive + r.conv[1].sws.made - r.conv[1].sws.freed
                  ELSE swsLive
    /\ convCtx' = IF r.conv /= <<>>
                  THEN ContextAfterConvert(convCtx, r.conv[1].sws.ctx)
                  ELSE convCtx
    /\ framergb' = IF r.conv /= <<>> THEN r.conv[1].rgb ELSE framergb
    /\ context' = IF isFrameAvailable(a.pktSize) /\ a.decRet >= 0 /\ a.got = 1
                  THEN [Width |-> a.w, Height |-> a.h]
                  ELSE context
    /\ completed' = IF converted THEN Append(completed, r.copy[1].addr) ELSE completed
    /\ origin' = IF converted
                 THEN [x \in DOMAIN origin \cup {r.copy[1].addr} |->
                          IF x = r.copy[1].addr
                          THEN [w |-> a.w, h |-> a.h, bytes |-> r.conv[1].bytes,
                                sws |-> r.conv[1].sws.ctx]
                          ELSE origin[x]]
                 ELSE origin
    /\ call' = [call EXCEPT
                  !.ran = TRUE,
                  !.unit = call.unit \/ a.pktSize > 0,
                  !.decFailed = call.decFailed
                                \/ (a.pktSize > 0 /\ a.decRet < 0 /\ a.nread >= 0),
                  !.neg = call.neg \/ a.nread < 0,
                  !.before = IF a.nread < 0 /\ ~call.neg THEN frames ELSE call.before,
                  !.last = Kind(a),
                  !.nread = a.nread,
                  !.alloc = r.alloc,
                  !.consumed = IF s.kind \in {"next", "done"}
                               THEN call.consumed + a.nread ELSE call.consumed]
    /\ scratchLive' = scratchLive + r.alloc - r.freed
    /\ UNCHANGED <<dec, newErr, args, res, stream>>

\* what the engine may answer in one iteration on d under Spec: any consumed
\* count from -1 to len(d) + 1, with or without a pending unit, which decodes or not
Pics == {1}

Answers(d, mayConvert) ==
    LET g0 == <<1, 2>> IN
    UNION { {Answer(n, 0, 0, 0, g0, 1, TRUE, TRUE),
             Answer(n, 1, -1, 0, g0, 1, TRUE, TRUE),
             Answer(n, 1, 1, 0, g0, 1, TRUE, TRUE)}
            \cup (IF mayConvert
                  THEN {Answer(n, 1, 1, 1, g, p, ok[1], ok[2]) :
                           g \in Geoms, p \in Pics,
                           ok \in {<<TRUE, TRUE>>, <<FALSE, TRUE>>, <<TRUE, FALSE>>}}
                  ELSE {})
          : n \in -1..(Len(d) + 1) }

CallDecode ==
    /\ dec \in {"open", "closed"}
    /\ pc = "idle"
    /\ \E n \in 0..MaxChunk : BeginDecode([i \in 1..n |-> 0])
    /\ UNCHANGED fed

\* what the process may do after undefined behaviour in native code: crash, or
\* run on with its memory in a state the program no longer determines
Undefined == {"panic", "corrupt"}

\* On a Decoder that was closed, h.parse (lines 152-160) hands released handles
\* to the engine.
DecodeLoop ==
    /\ pc = "loop"
    /\ IF dec = "closed"
       THEN /\ usedFreed' = TRUE
            /\ pc' \in Undefined
            /\ UNCHANGED <<dec, newErr, args, res, swsLive, convCtx, framergb, context,
                           data, frames, retFrames, retErr, heap, nConv, returned,
                           completed, origin, call, scratchLive, stream>>
       ELSE /\ \E a \in Answers(data, nConv < MaxConv) : Iterate(a)
            /\ UNCHANGED usedFreed
    /\ UNCHANGED <<fed, pbuf>>

\* Close(); releasing a handle a second time is undefined behaviour of the
\* native allocator
CallClose ==
    /\ dec \in {"open", "closed"}
    /\ pc = "idle"
    /\ dec' = "closed"
    /\ res' = Close(res)
    /\ swsLive' = converterClose(convCtx, swsLive)
    /\ pc' \in (IF dec = "closed" THEN Undefined ELSE {"idle"})
    /\ UNCHANGED <<newErr, args, convCtx, framergb, context, data, frames,
                   retFrames, retErr, heap, nConv, returned, completed, origin, call,
                   scratchLive, usedFreed, stream, fed, pbuf>>

Next == CallNew \/ CallDecode \/ DecodeLoop \/ CallClose

Spec == Init /\ [][Next]_vars


-----------------------------------------------------------------------------
(* SpecStream: the same adapter driven by a deterministic streaming engine. *)
(* A bitstream is a sequence of bytes: StartCode opens a unit, the other    *)
(* bytes are payload.  The parser keeps undigested bytes in its own buffer  *)
(* across calls and completes a unit when it meets the start code of the    *)
(* next one; it never reports a negative count.                             *)

StartCode == 0
Bytes == {StartCode, 1, 2, 3}

Min(S) == CHOOSE x \in S : \A y \in S : x <= y

\* AvParserParse2 on d with pb buffered: a unit boundary is a start code that has
\* bytes before it (buffered or in d).  With a boundary at position i the parser
\* consumes the i-1 bytes before it and hands out the unit; without one it
\* consumes and buffers all of d and hands out nothing.
StreamParse(pb, d) ==
    LET B == {i \in 1..Len(d) : d[i] = StartCode /\ Len(pb) + i - 1 > 0} IN
    IF B /= {}
    THEN [nread |-> Min(B) - 1, pkt |-> pb \o SubSeq(d, 1, Min(B) - 1), pbuf |-> <<>>]
    ELSE [nread |-> Len(d), pkt |-> <<>>, pbuf |-> pb \o d]

IsPayload(b) == b /= StartCode

\* AvcodecDecodeVideo2 on a unit: the last payload byte decides.  1 and 2 are
\* pictures (of different geometry and content), 3 is a unit the decoder rejects,
\* a unit without payload yields no picture.
StreamDecode(pkt) ==
    LET pl == SelectSeq(pkt, IsPayload)
        last == IF pl = <<>> THEN 0 ELSE pl[Len(pl)]
    IN
    IF last = 0 THEN [decRet |-> Len(pkt), got |-> 0, g |-> <<1, 2>>, pic |-> 1]
    ELSE IF last = 3 THEN [decRet |-> 0 - 1, got |-> 0, g |-> <<1, 2>>, pic |-> 1]
    ELSE [decRet |-> Len(pkt), got |-> 1,
          g |-> IF last = 1 THEN <<1, 2>> ELSE <<2, 1>>, pic |-> last]

StreamAnswer(pb, d) ==
    LET p == StreamParse(pb, d)
        v == StreamDecode(p.pkt)
    IN Answer(p.nread, Len(p.pkt), v.decRet, v.got, v.g, v.pic, TRUE, TRUE)

\* what a frame is to its consumer: geometry, stride and pixel bytes
FrameValue(f, bytes) ==
    [Width |-> f.Width, Height |-> f.Height, Stride |-> f.Stride, Data |-> bytes]

\* One Decode call on the whole of d by a fresh Decoder (parser buffer pb, converter
\* context cctx and frame rgb0 as New leaves them): the values of the frames
\* it returns, computed by the same loop body.
RECURSIVE WholeDecode(_, _, _, _, _, _, _)
WholeDecode(pb, cctx, rgb0, pixFmt, d, fs, vals) ==
    IF Len(d) = 0 THEN vals
    ELSE LET a == StreamAnswer(pb, d)
             r == decodeFrameImpl(cctx, rgb0, pixFmt, a, Len(vals) + 1)
             s == DecodeStep(fs, d, r)
             vals2 == IF Len(s.frames) > Len(fs)
                      THEN Append(vals, FrameValue(s.frames[Len(s.frames)],
                                                   r.copy[1].bytes))
                      ELSE vals
             cctx2 == IF r.conv /= <<>>
                      THEN ContextAfterConvert(cctx, r.conv[1].sws.ctx) ELSE cctx
             rgb2 == IF r.conv /= <<>> THEN r.conv[1].rgb ELSE rgb0
         IN CASE s.kind = "next" ->
                   WholeDecode(StreamParse(pb, d).pbuf, cctx2, rgb2, pixFmt,
                               s.data, s.frames, vals2)
              [] s.kind = "done" -> vals2
              [] OTHER -> <<>>

InitStream ==
    /\ InitBase
    /\ stream \in UNION {[1..n -> Bytes] : n \in 0..MaxStream}

\* the caller passes the next k bytes of the stream to Decode
FeedChunk ==
    /\ dec = "open"
    /\ pc = "idle"
    /\ \E k \in 1..(Len(stream) - fed) :
          /\ BeginDecode(SubSeq(stream, fed + 1, fed + k))
          /\ fed' = fed + k

StreamLoop ==
    /\ pc = "loop"
    /\ Iterate(StreamAnswer(pbuf, data))
    /\ pbuf' = StreamParse(pbuf, data).pbuf
    /\ UNCHANGED <<fed, usedFreed>>

NextStream == CallNew \/ FeedChunk \/ StreamLoop \/ CallClose

SpecStream == InitStream /\ [][NextStream]_vars

\* the frames returned so far, as values
ReturnedValues == [i \in 1..Len(returned) |-> FrameValue(returned[i], heap[returned[i].Data])]

-----------------------------------------------------------------------------
(* Claims checked under Spec (the engine answers anything) *)

AllFrames == {returned[i] : i \in 1..Len(returned)}
             \cup {frames[i] : i \in 1..Len(frames)}
             \cup {retFrames[i] : i \in 1..Len(retFrames)}
CallReturned == pc = "idle" /\ call.ran
NothingLive == \A x \in Resources : res[x] /= "live"

\* C2: if in a Decode call a unit's decode step fails (negative decode result)
\* while the parser's consumed count of that step is non-negative, the call
\* returns a non-nil error.
C2_UnitFailureReported ==
    (CallReturned /\ call.decFailed) => retErr /= Nil

\* C3: whenever the parser reports a negative consumed count, Decode aborts at
\* once without slicing the chunk, and returns a non-nil error together with the
\* frames accumulated before in the same call.
C3_NegativeProgressFatal ==
    call.neg => (pc = "idle" /\ retErr /= Nil /\ retFrames = call.before)

\* C4: when New fails, every native resource acquired in that call has been
\* released and no Decoder is returned.
C4_NoLeakOnFailedNew ==
    newErr /= Nil => (dec = "failed" /\ NothingLive)

\* C5: after New, any Decode calls and one Close, no native resource of the
\* Decoder remains allocated, the scaling contexts Convert created included.
C5_CloseReleasesAll ==
    dec = "closed" => (NothingLive /\ swsLive = 0)

\* C6: every Frame returned by Decode has len(Data) = Stride * Height and
\* Stride >= Width * 3, with Width and Height the geometry the engine reported
\* for that picture.
C6_FrameShape ==
    \A f \in AllFrames :
        /\ Len(heap[f.Data]) = f.Stride * f.Height
        /\ f.Stride >= f.Width * BytesPerPixel
        /\ f.Width = origin[f.Data].w
        /\ f.Height = origin[f.Data].h

\* frames of both geometries have been returned
C6_Witness ==
    /\ Len(returned) >= 2
    /\ returned[1].Width /= returned[2].Width
    /\ returned[1].Height /= returned[2].Height

\* C7: the Data of a returned Frame is a copy of its own: no two returned frames
\* share storage, none shares it with the scratch conversion buffer or the
\* converter's frame, and the bytes stay what the conversion wrote whatever
\* Decode and Close do later, while the scratch buffer is freed.
C7_BufferIndependence ==
    /\ \A i \in 1..Len(returned) :
          /\ heap[returned[i].Data] = origin[returned[i].Data].bytes
          /\ returned[i].Data /= ScratchAddr
          /\ <<returned[i].Data>> /= framergb.data
          /\ \A j \in 1..Len(returned) : i /= j => returned[i].Data /= returned[j].Data
    /\ pc = "idle" => heap[ScratchAddr] = Freed

\* two frames returned by different calls, and the Decoder closed since
C7_Witness ==
    /\ dec = "closed"
    /\ Len(returned) >= 2
    /\ Len(retFrames) = 1
    /\ heap[ScratchAddr] = Freed

C9_CompressionValidated ==
    (dec /= "none" /\ args.cpr \notin {H264, H265} /\ args.failAt \in {"none", "find"}) =>
        (dec = "failed" /\ newErr = "unsupported compression")

\* C10: the frames Decode has returned are, in order, exactly the pictures that
\* were decoded and converted: none reordered, duplicated or dropped.
C10_OrderPassThrough ==
    pc = "idle" => [i \in 1..Len(returned) |-> returned[i].Data] = completed


\* C11: when the engine-reported geometry differs between two decoded pictures
\* of one Decoder, the frame of the later picture carries the new width, height
\* and stride, and was scaled with a context built for the new geometry.
C11_ResolutionChange ==
    \A f \in AllFrames : \A e \in DOMAIN origin :
        (e < f.Data /\ <<origin[e].w, origin[e].h>> /= <<origin[f.Data].w, origin[f.Data].h>>) =>
            /\ f.Width = origin[f.Data].w
            /\ f.Height = origin[f.Data].h
            /\ f.Stride = origin[f.Data].w * BytesPerPixel
            /\ origin[f.Data].sws = <<origin[f.Data].w, origin[f.Data].h>>

\* a frame returned by a later call than a frame of another geometry
C11_Witness ==
    /\ dec = "open" /\ pc = "idle"
    /\ Len(returned) >= 2 /\ Len(retFrames) = 1
    /\ returned[Len(returned)].Width /= returned[1].Width
    /\ context = [Width |-> returned[Len(returned)].Width,
                  Height |-> returned[Len(returned)].Height]

\* C12: an iteration in which the parser consumed zero bytes and signalled no
\* pending unit ends the scan: Decode does not go into another iteration.
C12_ZeroConsumptionStop ==
    call.last = "stall" => pc /= "loop"

\* C13: when the decode step of a pending unit returns a negative result,
\* Decode aborts in that iteration and the call returns a non-nil error,
\* whatever the parser's consumed count was.
C13_HardFailureAborts ==
    call.last = "hard" => (pc = "idle" /\ retErr /= Nil)

\* C14: an iteration whose unit decodes without an output picture (and whose
\* consumed count is within the chunk) appends no frame, and Decode either
\* goes on with the remainder of the chunk or, at its end, returns the frames
\* it had with a nil error.
C14_NoPictureYet ==
    [][(pc = "loop" /\ call'.last = "nopic" /\ call'.nread \in 0..Len(data)) =>
          \/ pc' = "loop" /\ frames' = frames
                          /\ Len(data') = Len(data) - call'.nread
          \/ pc' = "idle" /\ retFrames' = frames /\ retErr' = Nil
                          /\ call'.nread = Len(data)]_vars

\* a call that returned the frame of its first unit after a last unit without picture
C14_Witness ==
    /\ CallReturned /\ call.last = "nopic"
    /\ Len(retFrames) = 1 /\ retErr = Nil
    /\ call.len = MaxChunk

\* C15: at most one scaling context is alive per converter at any time.
C15_OneContextAlive ==
    swsLive <= 1

\* C16: when no scaling context can be obtained for a picture, Convert returns
\* an error and does not scale: the process does not run the scaler on a nil
\* context.
C16_ConversionFailureDetected ==
    call.last = "nosws" => pc /= "panic"

\* C17: whenever Decode is about to start an iteration or has returned, no
\* scratch conversion buffer is outstanding, and an iteration without pending
\* unit, with a failed decode step or without picture allocated none.
C17_ScopedScratch ==
    /\ pc \in {"idle", "loop"} => scratchLive = 0
    /\ call.last \in {"stall", "nounit", "hard", "nopic"} => call.alloc = 0

\* the iteration after one whose conversion failed with an error is about to start
C17_Witness ==
    /\ pc = "loop" /\ call.last = "setfail"
    /\ call.alloc = 1 /\ scratchLive = 0
    /\ nConv = MaxConv

\* C18: inside the loop the rest of the chunk is what the consumed counts of
\* the iterations so far leave of it, never less than nothing; a call that
\* returns a nil error has consumed exactly the chunk; a call on an empty chunk
\* returns no frame and a nil error without an iteration.
C18_CursorAccounting ==
    /\ pc = "loop" => /\ Len(data) = call.len - call.consumed
                      /\ call.consumed \in 0..call.len
    /\ (CallReturned /\ retErr = Nil) => call.consumed = call.len
    /\ (pc = "idle" /\ call.len = 0) =>
          (~call.ran /\ retFrames = <<>> /\ retErr = Nil)

\* a call over the longest chunk that went past a failed decode step and then
\* a failed conversion, and returned a nil error
C18_Witness ==
    /\ CallReturned /\ retErr = Nil
    /\ call.decFailed /\ call.last = "setfail"
    /\ call.len = MaxChunk /\ call.consumed = MaxChunk

\* C19: over any sequence of New, Decode and Close calls on one Decoder no
\* native resource is released more than once and no native call is made on a
\* released resource.
C19_ReleaseAtMostOnce ==
    /\ \A x \in Resources : res[x] /= "freed again"
    /\ ~usedFreed

=============================================================================
